---- MODULE Spec2Model ----
(***************************************************************************)
(* The posts CRUD service: three router variants over one `posts` table.   *)
(*                                                                         *)
(*   "model"    src/api/posts/post-router.js + src/api/posts/post-model.js *)
(*   "callback" src/posts/post-router.js       (.then/.catch style)        *)
(*   "async"    src/unnamed/part_001           (async/await style)         *)
(*                                                                         *)
(* A request runs until it awaits the store; the query it issued waits in  *)
(* `queue`.  The store (knex over one sqlite3 connection) executes the     *)
(* queries in the order they were issued, and the completion of a query    *)
(* resumes the request that awaits it, which runs until its next await or  *)
(* until it has answered.  `ev` describes the step just taken: the query   *)
(* executed, its outcome and the response sent, if any.                    *)
(***************************************************************************)
EXTENDS Integers, Sequences, FiniteSets, TLC

VARIABLES variant, posts, queue, nreq, ev, fresh, gone

vars == <<variant, posts, queue, nreq, ev, fresh, gone>>

\* ---------------------------------------------------------------- bounds
MaxId == 2
MaxReqs == 3

\* ---------------------------------------------------------------- values
Variants == {"model", "callback", "async"}

Ids == 1..MaxId

\* a field the JSON body does not carry (undefined), a column holding NULL
NoVal == "undefined"
NoId == 0
\* `undefined` where a number is expected ({ count: undefined })
Undef == -1
\* no response sent (yet)
NoStatus == 0

Post(i, t, c) == [id |-> i, title |-> t, contents |-> c]

\* what .first() resolves to when no row matches
NoPost == Post(NoId, NoVal, NoVal)

\* req.body: the payloads the clients send
Bodies ==
  {Post(NoId, t, c) : t \in {NoVal, "A", "B"}, c \in {NoVal, "B"}}
    \cup {Post(NoId, "", "B")}
    \cup {Post(i, "B", "A") : i \in Ids}

\* the rows the table holds when the server starts
SeedRow(i) == Post(i, "A", "B")
Seeds == {{SeedRow(i) : i \in S} : S \in SUBSET Ids}

\* JavaScript truthiness of a body field: undefined and "" are falsy
Truthy(v) == v # NoVal /\ v # ""

\* ------------------------------------------------------- the store (knex)
\* .where({ id })
Where(rows, id) == {p \in rows : p.id = id}

\* .first(): the first matching row, or undefined
First(rows) == IF rows = {} THEN NoPost ELSE CHOOSE p \in rows : TRUE

\* db.first('*').from('posts').where({ id })
getById(rows, id) == First(Where(rows, id))

UsedIds(rows) == {p.id : p \in rows}

\* the ids the store may generate for a new row (none when the table is full)
GenIds(rows) == IF Ids \ UsedIds(rows) = {} THEN {NoId} ELSE Ids \ UsedIds(rows)

\* the id of the row an insert adds: the one the data carries, else a generated one
InsertId(data, gen) == IF data.id # NoId THEN data.id ELSE gen

\* the table rejects a row lacking title or contents, and a duplicate id
InsertOk(rows, data, gen) ==
  /\ data.title # NoVal
  /\ data.contents # NoVal
  /\ InsertId(data, gen) # NoId
  /\ InsertId(data, gen) \notin UsedIds(rows)

\* an insert that loses the contents column
InsertRows_DropContents(rows, data, gen) ==
  rows \cup {Post(InsertId(data, gen), data.title, "")}

\* db.insert(data).into('posts')
InsertRows(rows, data, gen) ==
  rows \cup {Post(InsertId(data, gen), data.title, data.contents)}

\* SET col = value for the columns the changes carry
Merge(p, ch) ==
  Post(IF ch.id # NoId THEN ch.id ELSE p.id,
       IF ch.title # NoVal THEN ch.title ELSE p.title,
       IF ch.contents # NoVal THEN ch.contents ELSE p.contents)

\* an update with no column is refused, and so is one that duplicates an id
UpdateOk(rows, id, ch) ==
  /\ ch # NoPost
  /\ ~(/\ Where(rows, id) # {}
       /\ ch.id # NoId
       /\ ch.id # id
       /\ Where(rows, ch.id) # {})

\* db('posts').where({ id }).update(changes)
UpdateRows(rows, id, ch) ==
  (rows \ Where(rows, id)) \cup {Merge(p, ch) : p \in Where(rows, id)}

\* db.del().from('posts').where({ id })
DelRows(rows, id) == rows \ Where(rows, id)

\* the count an update or a delete resolves to
Affected(rows, id) == Cardinality(Where(rows, id))

\* -------------------------------------------------------------- middleware
\* checkPayload that only tests contents
checkPayload_ContentsOnly(body) ==
  IF ~Truthy(body.contents) THEN 400 ELSE NoStatus

\* checkPayload: 400, or NoStatus when it calls next()
checkPayload(body) ==
  IF ~Truthy(body.title) \/ ~Truthy(body.contents) THEN 400 ELSE NoStatus

\* checkId that calls next() whatever the lookup found
checkId_AlwaysNext(ok, post) == IF ~ok THEN 500 ELSE NoStatus

\* checkId: the statusCode of the error it passes on, or NoStatus when it calls next()
checkId(ok, post) ==
  IF ~ok THEN 500 ELSE IF post # NoPost THEN NoStatus ELSE 404

\* an error handler that sends err.statusCode as it is, with no default
errorStatus_NoDefault(statusCode) == statusCode

\* the error handling middleware: err.statusCode ? err.statusCode : 500
errorStatus(statusCode) == IF statusCode # NoStatus THEN statusCode ELSE 500

\* --------------------------------------------------------------- responses
Json(kind, post, count) == [kind |-> kind, post |-> post, count |-> count]

NoJson == Json("none", NoPost, Undef)
Message == Json("message", NoPost, Undef)

\* a query waiting in the store's queue, with the request that issued it;
\* sent: the status already sent for that request
Entry(pc, method, id, body, sent) ==
  [pc |-> pc, method |-> method, id |-> id, body |-> body, sent |-> sent]

\* the step just taken, for the request of entry e
Event(pc, e, ok, count, post, status, json, handler, issued) ==
  [pc |-> pc, method |-> e.method, id |-> e.id, body |-> e.body,
   ok |-> ok, count |-> count, post |-> post,
   status |-> status, json |-> json, handler |-> handler, issued |-> issued]

NoEvent ==
  Event("init", Entry("init", "none", NoId, NoPost, NoStatus),
        TRUE, Undef, NoPost, NoStatus, NoJson, FALSE, "none")

Init ==
  /\ variant \in Variants
  /\ posts \in Seeds
  /\ queue = <<>>
  /\ nreq = 0
  /\ ev = NoEvent
  /\ fresh = {}
  /\ gone = {}


\* ------------------------------------------------------------ the requests
Request(method, id, body) == Entry("arrive", method, id, body, NoStatus)

\* the request issues a query and awaits it
Issue(e) == queue' = Append(queue, e)

\* the terminal error handler answers with the error's status and message
Arrived(method, id, body, status, handler, issued) ==
  Event("arrive", Request(method, id, body), TRUE, Undef, NoPost, status,
        IF status = NoStatus THEN NoJson ELSE Message, handler, issued)

\* GET /posts
ArriveList ==
  /\ nreq < MaxReqs
  /\ nreq' = nreq + 1
  /\ Issue(Entry("list", "LIST", NoId, NoPost, NoStatus))
  /\ ev' = Arrived("LIST", NoId, NoPost, NoStatus, TRUE, "list")
  /\ UNCHANGED <<variant, posts, fresh, gone>>

\* GET /posts/:id : checkId first in the model router, the lookup itself in the others
ArriveGet(id) ==
  /\ nreq < MaxReqs
  /\ nreq' = nreq + 1
  /\ IF variant = "model"
       THEN /\ Issue(Entry("checkId", "GET", id, NoPost, NoStatus))
            /\ ev' = Arrived("GET", id, NoPost, NoStatus, FALSE, "getById")
       ELSE /\ Issue(Entry("getOne", "GET", id, NoPost, NoStatus))
            /\ ev' = Arrived("GET", id, NoPost, NoStatus, TRUE, "getById")
  /\ UNCHANGED <<variant, posts, fresh, gone>>

\* POST /posts : checkPayload, then Post.create, in the model router;
\* the insert at once in the others
ArrivePost(body) ==
  /\ nreq < MaxReqs
  /\ nreq' = nreq + 1
  /\ IF variant = "model"
       THEN IF checkPayload(body) # NoStatus
              THEN /\ queue' = queue
                   /\ ev' = Arrived("POST", NoId, body,
                                    errorStatus(checkPayload(body)), FALSE, "none")
              ELSE /\ Issue(Entry("create_insert", "POST", NoId, body, NoStatus))
                   /\ ev' = Arrived("POST", NoId, body, NoStatus, TRUE, "insert")
       ELSE /\ Issue(Entry("insert", "POST", NoId, body, NoStatus))
            /\ ev' = Arrived("POST", NoId, body, NoStatus, TRUE, "insert")
  /\ UNCHANGED <<variant, posts, fresh, gone>>

\* PUT /posts/:id : checkId first in the model router, the update at once in the others
ArrivePut(id, body) ==
  /\ nreq < MaxReqs
  /\ nreq' = nreq + 1
  /\ IF variant = "model"
       THEN /\ Issue(Entry("checkId", "PUT", id, body, NoStatus))
            /\ ev' = Arrived("PUT", id, body, NoStatus, FALSE, "getById")
       ELSE /\ Issue(Entry("update", "PUT", id, body, NoStatus))
            /\ ev' = Arrived("PUT", id, body, NoStatus, TRUE, "update")
  /\ UNCHANGED <<variant, posts, fresh, gone>>

\* DELETE /posts/:id : checkId first in the model router, the delete at once in the others
ArriveDelete(id) ==
  /\ nreq < MaxReqs
  /\ nreq' = nreq + 1
  /\ IF variant = "model"
       THEN /\ Issue(Entry("checkId", "DELETE", id, NoPost, NoStatus))
            /\ ev' = Arrived("DELETE", id, NoPost, NoStatus, FALSE, "getById")
       ELSE /\ Issue(Entry("del", "DELETE", id, NoPost, NoStatus))
            /\ ev' = Arrived("DELETE", id, NoPost, NoStatus, TRUE, "del")
  /\ UNCHANGED <<variant, posts, fresh, gone>>

\* ------------------------------------------- the store completes a query
\* the query at the head of the queue is the one the store executes next
Next_pc == IF queue = <<>> THEN "none" ELSE Head(queue).pc

\* the list query resolves or rejects (all three variants)
ExecList ==
  /\ Next_pc = "list"
  /\ \E fail \in BOOLEAN :
       ev' = Event("list", Head(queue), ~fail, Undef, NoPost,
                   IF fail THEN errorStatus(NoStatus) ELSE 200,
                   IF fail THEN Message ELSE Json("posts", NoPost, Undef),
                   TRUE, "none")
  /\ queue' = Tail(queue)
  /\ UNCHANGED <<variant, posts, nreq, fresh, gone>>

\* model router: checkId's lookup completes; on next() the rest of the chain runs:
\* the GET handler answers, the DELETE handler awaits Post.remove, and PUT runs
\* checkPayload and then its handler, which calls Post.update (that returns
\* undefined at once, leaving the update query behind) and answers
ExecCheckId ==
  /\ Next_pc = "checkId"
  /\ \E fail \in BOOLEAN :
       LET e == Head(queue)
           ok == ~fail
           post == IF ok THEN getById(posts, e.id) ELSE NoPost
           code == checkId(ok, post)
       IN  IF code # NoStatus
             THEN /\ queue' = Tail(queue)
                  /\ ev' = Event("checkId", e, ok, Undef, post, errorStatus(code),
                                 Message, FALSE, "none")
             ELSE IF e.method = "GET"
               THEN /\ queue' = Tail(queue)
                    /\ ev' = Event("checkId", e, ok, Undef, post, 200,
                                   Json("post", post, Undef), TRUE, "none")
               ELSE IF e.method = "DELETE"
                 THEN /\ queue' = Append(Tail(queue),
                                         Entry("remove", "DELETE", e.id, e.body, NoStatus))
                      /\ ev' = Event("checkId", e, ok, Undef, post, NoStatus,
                                     NoJson, TRUE, "del")
                 ELSE IF checkPayload(e.body) # NoStatus
                   THEN /\ queue' = Tail(queue)
                        /\ ev' = Event("checkId", e, ok, Undef, post,
                                       errorStatus(checkPayload(e.body)),
                                       Message, FALSE, "none")
                   ELSE /\ queue' = Append(Tail(queue),
                                           Entry("update_detached", "PUT", e.id, e.body, 200))
                        /\ ev' = Event("checkId", e, ok, Undef, post, 200,
                                       Json("count", NoPost, Undef), TRUE, "update")
  /\ UNCHANGED <<variant, posts, nreq, fresh, gone>>

\* fresh: the rows Post.create inserted, as the payload gave them, that no update
\* or delete has addressed since; an update or delete of id takes its row out
Untouched(set, id) == {p \in set : p.id # id}

\* model router: Post.remove's delete completes and the DELETE handler answers
ExecRemove ==
  /\ Next_pc = "remove"
  /\ \E fail \in BOOLEAN :
       LET e == Head(queue)
           ok == ~fail
           count == IF ok THEN Affected(posts, e.id) ELSE Undef
       IN  /\ posts' = IF ok THEN DelRows(posts, e.id) ELSE posts
           /\ ev' = Event("remove", e, ok, count, NoPost,
                          IF ok THEN 200 ELSE errorStatus(NoStatus),
                          IF ok THEN Json("count", NoPost, count) ELSE Message,
                          TRUE, "none")
           /\ fresh' = IF ok THEN Untouched(fresh, e.id) ELSE fresh
           /\ gone' = IF ok /\ count > 0 THEN gone \cup {e.id} ELSE gone
  /\ queue' = Tail(queue)
  /\ UNCHANGED <<variant, nreq>>

\* model router: Post.create's insert completes; create goes on to getById(postId)
ExecCreateInsert ==
  /\ Next_pc = "create_insert"
  /\ \E fail \in BOOLEAN, gen \in GenIds(posts) :
       LET e == Head(queue)
           ok == ~fail /\ InsertOk(posts, e.body, gen)
           postId == IF ok THEN InsertId(e.body, gen) ELSE Undef
       IN  IF ok
             THEN /\ posts' = InsertRows(posts, e.body, gen)
                  /\ queue' = Append(Tail(queue),
                                     Entry("create_getById", "POST", postId, e.body, NoStatus))
                  /\ ev' = Event("create_insert", e, ok, postId, NoPost, NoStatus,
                                 NoJson, TRUE, "getById")
                  /\ gone' = gone \ {postId}
                  /\ fresh' = fresh \cup {Post(postId, e.body.title, e.body.contents)}
             ELSE /\ posts' = posts
                  /\ queue' = Tail(queue)
                  /\ ev' = Event("create_insert", e, ok, postId, NoPost,
                                 errorStatus(NoStatus), Message, TRUE, "none")
                  /\ UNCHANGED <<gone, fresh>>
  /\ UNCHANGED <<variant, nreq>>

\* model router: Post.create's getById completes, create returns the post and the
\* POST handler answers with res.json(data)
ExecCreateGetById ==
  /\ Next_pc = "create_getById"
  /\ \E fail \in BOOLEAN :
       LET e == Head(queue)
           ok == ~fail
           post == IF ok THEN getById(posts, e.id) ELSE NoPost
       IN  ev' = Event("create_getById", e, ok, Undef, post,
                       IF ok THEN 200 ELSE errorStatus(NoStatus),
                       IF ok THEN Json("post", post, Undef) ELSE Message,
                       TRUE, "none")
  /\ queue' = Tail(queue)
  /\ UNCHANGED <<variant, posts, nreq, fresh, gone>>

\* model router: the update Post.update left behind completes; nothing awaits it,
\* the PUT handler has answered already (e.sent)
ExecUpdateDetached ==
  /\ Next_pc = "update_detached"
  /\ \E fail \in BOOLEAN :
       LET e == Head(queue)
           ok == ~fail /\ UpdateOk(posts, e.id, e.body)
           count == IF ok THEN Affected(posts, e.id) ELSE Undef
       IN  /\ posts' = IF ok THEN UpdateRows(posts, e.id, e.body) ELSE posts
           /\ ev' = Event("update_detached", e, ok, count, NoPost, e.sent,
                          NoJson, FALSE, "none")
           /\ fresh' = IF ok THEN Untouched(fresh, e.id) ELSE fresh
  /\ queue' = Tail(queue)
  /\ UNCHANGED <<variant, nreq, gone>>

\* the status GET /posts/:id sends when no row matches
notFoundStatus(v) == IF v = "callback" THEN 400 ELSE 404

\* callback and async routers: the lookup of GET /posts/:id completes
ExecGetOne ==
  /\ Next_pc = "getOne"
  /\ \E fail \in BOOLEAN :
       LET e == Head(queue)
           ok == ~fail
           post == IF ok THEN getById(posts, e.id) ELSE NoPost
       IN  ev' = Event("getOne", e, ok, Undef, post,
                       IF ~ok THEN 500
                       ELSE IF post # NoPost THEN 200 ELSE notFoundStatus(variant),
                       IF ok /\ post # NoPost THEN Json("post", post, Undef) ELSE Message,
                       TRUE, "none")
  /\ queue' = Tail(queue)
  /\ UNCHANGED <<variant, posts, nreq, fresh, gone>>

\* callback and async routers: the insert of POST /posts completes
ExecInsert ==
  /\ Next_pc = "insert"
  /\ \E fail \in BOOLEAN, gen \in GenIds(posts) :
       LET e == Head(queue)
           ok == ~fail /\ InsertOk(posts, e.body, gen)
           postId == IF ok THEN InsertId(e.body, gen) ELSE Undef
       IN  /\ posts' = IF ok THEN InsertRows(posts, e.body, gen) ELSE posts
           /\ ev' = Event("insert", e, ok, postId, NoPost,
                          IF ok THEN 201 ELSE 500,
                          IF ok THEN Json("ids", NoPost, postId) ELSE Message,
                          TRUE, "none")
           /\ gone' = IF ok THEN gone \ {postId} ELSE gone
  /\ queue' = Tail(queue)
  /\ UNCHANGED <<variant, nreq, fresh>>

\* the status PUT and DELETE send for the count the store resolved to
countStatus(count) == IF count # 0 THEN 200 ELSE 404

\* callback and async routers: the update of PUT /posts/:id completes
ExecUpdate ==
  /\ Next_pc = "update"
  /\ \E fail \in BOOLEAN :
       LET e == Head(queue)
           ok == ~fail /\ UpdateOk(posts, e.id, e.body)
           count == IF ok THEN Affected(posts, e.id) ELSE Undef
       IN  /\ posts' = IF ok THEN UpdateRows(posts, e.id, e.body) ELSE posts
           /\ ev' = Event("update", e, ok, count, NoPost,
                          IF ok THEN countStatus(count) ELSE 500,
                          IF ok /\ count # 0 THEN Json("count", NoPost, count) ELSE Message,
                          TRUE, "none")
           /\ fresh' = IF ok THEN Untouched(fresh, e.id) ELSE fresh
  /\ queue' = Tail(queue)
  /\ UNCHANGED <<variant, nreq, gone>>

\* callback and async routers: the delete of DELETE /posts/:id completes
ExecDel ==
  /\ Next_pc = "del"
  /\ \E fail \in BOOLEAN :
       LET e == Head(queue)
           ok == ~fail
           count == IF ok THEN Affected(posts, e.id) ELSE Undef
       IN  /\ posts' = IF ok THEN DelRows(posts, e.id) ELSE posts
           /\ ev' = Event("del", e, ok, count, NoPost,
                          IF ok THEN countStatus(count) ELSE 500,
                          IF ok /\ count # 0 THEN Json("count", NoPost, count) ELSE Message,
                          TRUE, "none")
           /\ fresh' = IF ok THEN Untouched(fresh, e.id) ELSE fresh
           /\ gone' = IF ok /\ count > 0 THEN gone \cup {e.id} ELSE gone
  /\ queue' = Tail(queue)
  /\ UNCHANGED <<variant, nreq>>

Next ==
  \/ ArriveList
  \/ \E id \in Ids : ArriveGet(id)
  \/ \E body \in Bodies : ArrivePost(body)
  \/ \E id \in Ids, body \in Bodies : ArrivePut(id, body)
  \/ \E id \in Ids : ArriveDelete(id)
  \/ ExecList
  \/ ExecCheckId
  \/ ExecRemove
  \/ ExecCreateInsert
  \/ ExecCreateGetById
  \/ ExecUpdateDetached
  \/ ExecGetOne
  \/ ExecInsert
  \/ ExecUpdate
  \/ ExecDel

Spec == Init /\ [][Next]_vars


\* ------------------------------------------------------------------ claims
BothFields(body) == body.title # NoVal /\ body.contents # NoVal
MissingBoth(body) == body.title = NoVal /\ body.contents = NoVal
Answered == ev.status # NoStatus

\* C1 as stated: whenever Post.create returns for a payload with title and
\* contents, the post it returns has a non-null id and the payload's title and
\* contents.
C1_CreateReturnsPayload ==
  (ev.pc = "create_getById" /\ ev.ok /\ BothFields(ev.body)) =>
    /\ ev.post.id # NoId
    /\ ev.post.title = ev.body.title
    /\ ev.post.contents = ev.body.contents

\* C1 amended: Post.create inserts one row with a non-null id and the payload's
\* title and contents; as long as no update or delete of that id has been applied
\* since the insert, getById with that id returns an equal post, and so does
\* Post.create itself, whose return value is such a getById.
C1_CreateRoundTrip ==
  /\ \A p \in fresh : p.id # NoId /\ Where(posts, p.id) = {p} /\ getById(posts, p.id) = p
  /\ (ev.pc = "create_getById" /\ ev.ok /\ (\E p \in fresh : p.id = ev.id)) =>
       /\ ev.post \in fresh
       /\ ev.post.id # NoId
       /\ ev.post.title = ev.body.title
       /\ ev.post.contents = ev.body.contents

\* C1 witness: Post.create has returned the post it inserted
C1_Witness ==
  /\ ev.pc = "create_getById"
  /\ ev.ok
  /\ BothFields(ev.body)
  /\ ev.post \in fresh
  /\ ev.status = 200


\* C2: a POST /posts whose body lacks both title and contents is answered 400 by
\* the payload check itself, before any query is issued: no insert for such a
\* body is ever waiting in the store's queue, in every router variant.
C2_MissingBothRejected ==
  /\ (ev.method = "POST" /\ MissingBoth(ev.body) /\ Answered) =>
       (ev.status = 400 /\ ev.pc = "arrive")
  /\ \A i \in 1..Len(queue) :
       queue[i].method = "POST" => ~MissingBoth(queue[i].body)

\* C3: when checkId's lookup completes for an id that has no row in the table, the
\* request is answered 404 with a message, the route handler does not run and no
\* query (update, delete) is issued for it.
C3_AbsentIdIs404 ==
  (ev.pc = "checkId" /\ ev.ok /\ Where(posts, ev.id) = {}) =>
    /\ ev.status = 404
    /\ ev.json = Message
    /\ ~ev.handler
    /\ ev.issued = "none"

\* C3 witness: checkId has looked up, for a PUT or a DELETE, an id that has no row
C3_Witness ==
  /\ ev.pc = "checkId"
  /\ ev.ok
  /\ Where(posts, ev.id) = {}
  /\ ev.method \in {"PUT", "DELETE"}
  /\ ev.status = 404

\* a body carrying exactly one of title and contents, and nothing else
Partial(body) ==
  /\ body.id = NoId
  /\ (body.title = NoVal) # (body.contents = NoVal)

\* the row p after an update that supplies only the fields of body
Supplied(p, body) ==
  Post(p.id,
       IF body.title # NoVal THEN body.title ELSE p.title,
       IF body.contents # NoVal THEN body.contents ELSE p.contents)

\* C4: a PUT /posts/:id for an existing id with a partial body is answered 200,
\* and the update it makes changes only the supplied field of that post: the
\* other field and every other post keep their values.
C4_PartialUpdate ==
  [][/\ (/\ ev'.method = "PUT"
         /\ Partial(ev'.body)
         /\ ev'.ok
         /\ \/ ev'.pc = "checkId" /\ ev'.post # NoPost
            \/ ev'.pc = "update" /\ ev'.count > 0)
        => ev'.status = 200
     /\ (ev'.pc \in {"update", "update_detached"} /\ ev'.ok /\ Partial(ev'.body))
        => posts' = {IF p.id = ev'.id THEN Supplied(p, ev'.body) ELSE p : p \in posts}
    ]_vars

\* C5: a POST /posts whose body has title and contents and whose queries all
\* succeed is answered 201, in every router variant.
C5_CreatedIs201 ==
  (/\ ev.method = "POST"
   /\ BothFields(ev.body)
   /\ ev.pc \in {"create_getById", "insert"}
   /\ ev.ok)
  => ev.status = 201

\* C6: a request one of whose store queries rejects is answered 500, never with a
\* success status, whatever the operation and the router variant.
C6_RejectIs500 ==
  (ev.pc \notin {"init", "arrive"} /\ ~ev.ok) => ev.status = 500

\* C7: a PUT /posts/:id answered 200 carries in its body the number of rows the
\* store reported for the update, or the updated post.
C7_PutBodyHasCount ==
  (ev.method = "PUT" /\ ev.pc \in {"checkId", "update"} /\ ev.status = 200) =>
    \/ ev.json.kind = "count" /\ ev.json.count # Undef /\ ev.json.count = ev.count
    \/ ev.json.kind = "post" /\ ev.json.post # NoPost

\* C8: an update or a delete that the store completes with zero rows affected
\* belongs to a request answered 404, in every variant and interleaving.
C8_ZeroRowsIs404 ==
  (/\ ev.pc \in {"update", "update_detached", "remove", "del"}
   /\ ev.ok
   /\ ev.count = 0)
  => ev.status = 404

\* C9: a delete for an existing id removes exactly the row with that id and leaves
\* every other row as it was; from then on getById for that id finds no post
\* until a new post is created with that id.
C9_DeleteRemovesOne ==
  [][/\ (ev'.pc \in {"remove", "del"} /\ ev'.ok /\ Where(posts, ev'.id) # {})
        => /\ posts' = {p \in posts : p.id # ev'.id}
           /\ Cardinality(posts') = Cardinality(posts) - 1
     /\ \A id \in gone' : getById(posts', id) = NoPost
    ]_vars

\* C10: in every router variant GET /posts/:id is answered 404 with a message
\* when the id has no row, and 200 with the post when it has one.
C10_GetOneStatus ==
  (ev.method = "GET" /\ ev.pc \in {"checkId", "getOne"} /\ ev.ok) =>
    IF Where(posts, ev.id) = {}
      THEN ev.status = 404 /\ ev.json = Message
      ELSE ev.status = 200 /\ ev.json = Json("post", getById(posts, ev.id), Undef)


\* C11: the id of a post never changes: whatever the body of the request carries,
\* an update leaves every row of the table with the id it had, so the table holds
\* the same ids before and after it.
C11_IdImmutable ==
  [][(ev'.pc \in {"update", "update_detached"}) =>
       /\ UsedIds(posts') = UsedIds(posts)
       /\ \A p \in posts : \E q \in posts' : q.id = p.id
    ]_vars


\* C12: in the model router, which applies checkPayload to POST and PUT, every
\* post the table holds has a title and contents that are present and non-empty,
\* given that the rows it started with had them.
C12_StrictRowsComplete ==
  variant = "model" =>
    \A p \in posts : Truthy(p.title) /\ Truthy(p.contents)

\* C12 witness: the model router has refused a body whose title is empty while
\* the table holds a row that an accepted create or update wrote
C12_Witness ==
  /\ variant = "model"
  /\ ev.status = 400
  /\ ev.body.title = ""
  /\ \E p \in posts : p # SeedRow(p.id)


\* the body fails the payload check: title or contents is undefined or empty
BadPayload(body) == ~(Truthy(body.title) /\ Truthy(body.contents))

\* the step just taken passed an error to next(err) in the model router: from
\* checkPayload, from checkId, or from the catch of a handler whose query rejected
ErrRaised ==
  \/ ev.pc = "arrive" /\ ev.method = "POST" /\ BadPayload(ev.body)
  \/ ev.pc = "checkId" /\ (~ev.ok \/ ev.post = NoPost)
  \/ ev.pc = "checkId" /\ ev.method = "PUT" /\ BadPayload(ev.body)
  \/ ev.pc \in {"list", "remove", "create_insert", "create_getById"} /\ ~ev.ok

\* the statusCode that error carries: 500 from checkId's catch, 404 from checkId,
\* 400 from checkPayload, none from a handler's catch
ErrStatusCode ==
  IF ev.pc = "checkId" /\ ~ev.ok THEN 500
  ELSE IF ev.pc = "checkId" /\ ev.post = NoPost THEN 404
  ELSE IF ev.pc \in {"arrive", "checkId"} THEN 400
  ELSE NoStatus

C14_PutAnswersAfterUpdate ==
  variant = "model" =>
    /\ \A i \in 1..Len(queue) :
         queue[i].pc \in {"update", "update_detached"} => queue[i].sent = NoStatus
    /\ (ev.method = "PUT" /\ ev.pc = "checkId" /\ ev.status = 200) =>
         ev.issued = "none"

====
